---- MODULE Spec2Model ----
(***************************************************************************)
(* git-zprompt: one run of main (src/main.rs).  The repository is the      *)
(* git2 collaborator: its state is the record `repo`, every query on it    *)
(* either answers from that record or fails.  Text is a sequence of        *)
(* fragments (Str); a character outside ASCII is the fragment "U+<code     *)
(* point>".  Standard output is the sequence of the chunks written to it,  *)
(* one per write! call.                                                    *)
(***************************************************************************)
EXTENDS Naturals, Sequences, FiniteSets

VARIABLES
    repo,        \* the repository as the collaborator reports it
    pc,          \* main's position
    data,        \* the PromptData being assembled
    acc,         \* prepare_staging_stat's counters while statuses are walked
    entry,       \* the status entry the for_each closure was last called with
    status_idx,  \* how many status entries the closure has been called with
    stdout,      \* chunks written to standard output
    exit_code,   \* the process's exit status, None while it runs
    queries,     \* the repository queries issued so far, in order
    failed,      \* the repository queries that did not succeed
    tag_calls    \* how many times find_tag's callback has run

vars == <<repo, pc, data, acc, entry, status_idx, stdout, exit_code, queries,
          failed, tag_calls>>

-----------------------------------------------------------------------------
(* Bounds of the model *)

MaxCommits == 3
MaxTags == 2
MaxEntries == 2
MaxStash == 2
MaxCount == 2

-----------------------------------------------------------------------------
(* Option<T> *)

None == [some |-> FALSE]

Some(v) == [some |-> TRUE, val |-> v]

-----------------------------------------------------------------------------
(* Text *)

RECURSIVE concat(_)
\* Iterator<str>::collect::<String>()
concat(ss) == IF ss = <<>> THEN <<>> ELSE Head(ss) \o concat(Tail(ss))

RECURSIVE intersperse_trailing(_, _)
\* intersperse gone wrong: the separator after every element, the last too
intersperse_trailing(ss, sep) ==
    IF ss = <<>> THEN <<>>
    ELSE <<Head(ss), sep>> \o intersperse_trailing(Tail(ss), sep)

RECURSIVE intersperse(_, _)
\* Iterator::intersperse
intersperse(ss, sep) ==
    IF Len(ss) <= 1 THEN ss
    ELSE <<Head(ss), sep>> \o intersperse(Tail(ss), sep)

\* Option values of an array, in order (iter().flatten())
flatten(opts) ==
    LET present == SelectSeq(opts, LAMBDA o : o.some)
    IN  [i \in 1..Len(present) |-> present[i].val]

DigitChars == <<"0", "1", "2", "3", "4", "5", "6", "7", "8", "9">>

RECURSIVE display_usize(_)
\* "{}" of a usize: its decimal digits, most significant first
display_usize(n) ==
    IF n < 10 THEN <<DigitChars[n + 1]>>
    ELSE display_usize(n \div 10) \o <<DigitChars[(n % 10) + 1]>>

colored_str(content, color) == <<"%F{", color, "}">> \o content \o <<"%f">>

bold_str(content) == <<"%B">> \o content \o <<"%b">>

\* Glyphs of print_prompt
GlyphStash == "U+1F6A7"
GlyphStaged == "U+1F5F8"
GlyphModified == "U+2022"
GlyphConflict == "U+2718"
GlyphNoUpstream == "U+2205"
GlyphAhead == "U+2191"
GlyphBehind == "U+2193"
GlyphTag == "U+1F516"

-----------------------------------------------------------------------------
(* Object ids.  An object is a number; objects 1..MaxCommits are commits,   *)
(* the next ones annotated tag objects.  Its id is 20 bytes, printed as 40  *)
(* hex characters.                                                          *)

Commits == 1..MaxCommits

TagObjects == {MaxCommits + 1}

HexChars == <<"0", "1", "2", "3", "4", "5", "6", "7",
              "8", "9", "a", "b", "c", "d", "e", "f">>

oid_bytes(obj) == [i \in 1..20 |-> (obj * 83 + i * 29) % 256]

\* Oid::to_string: two lowercase hex characters per byte, high nibble first
oid_to_string(obj) ==
    LET b == oid_bytes(obj)
    IN  [i \in 1..40 |->
            IF i % 2 = 1 THEN HexChars[(b[(i + 1) \div 2] \div 16) + 1]
            ELSE HexChars[(b[i \div 2] % 16) + 1]]

ShortHashLen == 13

-----------------------------------------------------------------------------
(* References.  A reference is its name, split into the namespace prefix   *)
(* and the rest, and the object it points to.                              *)

HeadsPrefix == "refs/heads/"

RemotesPrefix == "refs/remotes/"

TagsPrefix == "refs/tags/"

Reference(prefix, short, target) ==
    [prefix |-> prefix, short |-> short, target |-> target]

\* Reference::is_branch
is_branch(ref) == ref.prefix = HeadsPrefix

\* Reference::is_remote
is_remote(ref) == ref.prefix = RemotesPrefix

\* Reference::shorthand
shorthand(ref) == ref.short

\* Reference::peel_to_commit().id(): HEAD points to a commit
peel_to_commit(ref) == ref.target

-----------------------------------------------------------------------------
(* HeadInfo *)

EmptyBranch(name) == [kind |-> "EmptyBranch", name |-> name]

Branch(name, upstream) ==
    [kind |-> "Branch", name |-> name, upstream |-> upstream]

RemoteBranch(name) == [kind |-> "RemoteBranch", name |-> name]

Tag(name) == [kind |-> "Tag", name |-> name]

Commit(hash) == [kind |-> "Commit", hash |-> hash]

\* No HeadInfo built yet
NoHead == [kind |-> "Unset"]

CommitStat(ahead, behind) == [ahead |-> ahead, behind |-> behind]

StagingStat(modified, staged, conflict) ==
    [modified |-> modified, staged |-> staged, conflict |-> conflict]

PromptData(head, commit_stat, staging_stat, stash) ==
    [head |-> head, commit_stat |-> commit_stat,
     staging_stat |-> staging_stat, stash |-> stash]

NoData == PromptData(NoHead, CommitStat(0, 0), StagingStat(0, 0, 0), 0)

-----------------------------------------------------------------------------
(* find_tag *)

\* The closure gone wrong: it stops the iteration at the first match
find_tag_callback_stop_at_match(tag, head, oid, name) ==
    [tag |-> IF oid = head THEN Some(shorthand(name)) ELSE tag,
     go  |-> oid # head]

\* The closure find_tag hands to tag_foreach: the new value of `tag`, and
\* whether the iteration goes on.
find_tag_callback(tag, head, oid, name) ==
    [tag |-> IF oid = head THEN Some(shorthand(name)) ELSE tag,
     go  |-> TRUE]

RECURSIVE tag_foreach(_, _, _, _)
\* Repository::tag_foreach over tags[i..], calling the closure until it
\* returns false; st = [tag, calls].
tag_foreach(tags, i, head, st) ==
    IF i > Len(tags) THEN st
    ELSE LET r == find_tag_callback(st.tag, head, tags[i].oid, tags[i].name)
             next == [tag |-> r.tag, calls |-> st.calls + 1]
         IN  IF r.go THEN tag_foreach(tags, i + 1, head, next) ELSE next

find_tag(r, head) == tag_foreach(r.tags, 1, head, [tag |-> None, calls |-> 0])

-----------------------------------------------------------------------------
(* prepare_head_info *)

\* branch.upstream().ok().map(|u| u.name()...): the outcome of the lookup
\* is "found" (with the upstream reference), "notfound" or "error".
upstream_of(lookup) ==
    IF lookup.status = "found" THEN Some(shorthand(lookup.ref)) ELSE None

\* prepare_head_info gone wrong: the tag is looked for before the branch test
prepare_head_info_tag_first(r) ==
    LET repo_head == r.head
        head_name == shorthand(repo_head)
        found == find_tag(r, peel_to_commit(repo_head))
    IN  IF found.tag.some THEN Tag(found.tag.val)
        ELSE IF is_branch(repo_head) THEN Branch(head_name, upstream_of(r.upstream))
        ELSE IF is_remote(repo_head) THEN RemoteBranch(head_name)
        ELSE Commit(oid_to_string(repo_head.target))

prepare_head_info(r) ==
    LET repo_head == r.head
        head_name == shorthand(repo_head)
        found == find_tag(r, peel_to_commit(repo_head))
    IN  IF is_branch(repo_head) THEN Branch(head_name, upstream_of(r.upstream))
        ELSE IF found.tag.some THEN Tag(found.tag.val)
        ELSE IF is_remote(repo_head) THEN RemoteBranch(head_name)
        ELSE Commit(oid_to_string(repo_head.target))

\* The queries prepare_head_info issues, in order
head_queries(r) ==
    IF is_branch(r.head) THEN <<"head", "find_branch", "upstream">>
    ELSE <<"head", "peel_to_commit", "tag_foreach">>

\* Those whose failure is unwrapped (a panic)
head_fatal(r) ==
    IF is_branch(r.head) THEN {"head", "find_branch"}
    ELSE {"head", "peel_to_commit", "tag_foreach"}

-----------------------------------------------------------------------------
(* prepare_commit_stat *)

RECURSIVE walk(_, _, _, _)
\* A Revwalk: pending commits are emitted one at a time, each pushing the
\* parents not seen before; the result is the sequence emitted.
walk(parents, pending, seen, out) ==
    IF pending = {} THEN out
    ELSE LET c == CHOOSE x \in pending : \A y \in pending : y <= x
             new == parents[c] \ seen
         IN  walk(parents, (pending \ {c}) \cup new, seen \cup new,
                  Append(out, c))

\* revwalk(); push_head(); the iterator
revwalk_head(r) == walk(r.parents, {r.head.target}, {r.head.target}, <<>>)

Range(s) == {s[i] : i \in DOMAIN s}

\* Repository::graph_ahead_behind(local, upstream)
graph_ahead_behind(r, local, upstream) ==
    LET l == Range(walk(r.parents, {local}, {local}, <<>>))
        u == Range(walk(r.parents, {upstream}, {upstream}, <<>>))
    IN  <<Cardinality(l \ u), Cardinality(u \ l)>>

\* prepare_commit_stat gone wrong: without upstream nothing is counted
prepare_commit_stat_needs_upstream(r, head) ==
    IF head.kind = "Branch" /\ head.upstream.some THEN
        LET ab == graph_ahead_behind(r, r.head.target, r.upstream.ref.target)
        IN  CommitStat(ab[1], ab[2])
    ELSE CommitStat(0, 0)

prepare_commit_stat(r, head) ==
    IF head.kind = "Branch" THEN
        IF head.upstream.some THEN
            LET ab == graph_ahead_behind(r, r.head.target, r.upstream.ref.target)
            IN  CommitStat(ab[1], ab[2])
        ELSE CommitStat(Len(revwalk_head(r)), 0)
    ELSE CommitStat(0, 0)

\* The queries prepare_commit_stat issues, in order
commit_queries(head) ==
    IF head.kind = "Branch" THEN
        IF head.upstream.some
        THEN <<"find_branch", "peel_to_commit", "find_branch",
               "peel_to_commit", "graph_ahead_behind">>
        ELSE <<"find_branch", "peel_to_commit", "revwalk", "push_head">>
    ELSE <<>>

-----------------------------------------------------------------------------
(* prepare_staging_stat *)

IndexFlags == {"INDEX_NEW", "INDEX_MODIFIED", "INDEX_DELETED", "INDEX_RENAMED"}

WtFlags == {"WT_NEW", "WT_MODIFIED", "WT_DELETED", "WT_RENAMED"}

\* git2::Status flags an entry of this enumeration can carry: IGNORED is
\* excluded by include_ignored(false); the two TYPECHANGE flags, which the
\* closure does not test either, are left out like it.
StatusFlags == IndexFlags \cup WtFlags \cup {"CONFLICTED"}

\* Status::contains
contains(status, flag) == flag \in status

\* The closure gone wrong: no return after a conflicted entry is counted
count_status_entry_no_return(st, status) ==
    StagingStat(
        IF contains(status, "WT_MODIFIED") \/ contains(status, "WT_NEW")
           \/ contains(status, "WT_DELETED")
        THEN st.modified + 1 ELSE st.modified,
        IF contains(status, "INDEX_MODIFIED") \/ contains(status, "INDEX_NEW")
           \/ contains(status, "INDEX_DELETED")
        THEN st.staged + 1 ELSE st.staged,
        IF contains(status, "CONFLICTED") THEN st.conflict + 1 ELSE st.conflict)

\* The closure gone wrong: `else if` on the working-tree flags
count_status_entry_exclusive(st, status) ==
    IF contains(status, "CONFLICTED")
    THEN StagingStat(st.modified, st.staged, st.conflict + 1)
    ELSE IF contains(status, "INDEX_MODIFIED") \/ contains(status, "INDEX_NEW")
            \/ contains(status, "INDEX_DELETED")
    THEN StagingStat(st.modified, st.staged + 1, st.conflict)
    ELSE IF contains(status, "WT_MODIFIED") \/ contains(status, "WT_NEW")
            \/ contains(status, "WT_DELETED")
    THEN StagingStat(st.modified + 1, st.staged, st.conflict)
    ELSE st

\* The closure prepare_staging_stat hands to for_each, on the counters
count_status_entry(st, status) ==
    IF contains(status, "CONFLICTED")
    THEN StagingStat(st.modified, st.staged, st.conflict + 1)
    ELSE StagingStat(
            IF contains(status, "WT_MODIFIED") \/ contains(status, "WT_NEW")
               \/ contains(status, "WT_DELETED")
            THEN st.modified + 1 ELSE st.modified,
            IF contains(status, "INDEX_MODIFIED") \/ contains(status, "INDEX_NEW")
               \/ contains(status, "INDEX_DELETED")
            THEN st.staged + 1 ELSE st.staged,
            st.conflict)

RECURSIVE for_each_status(_, _)
for_each_status(statuses, st) ==
    IF statuses = <<>> THEN st
    ELSE for_each_status(Tail(statuses), count_status_entry(st, Head(statuses)))

prepare_staging_stat(r) == for_each_status(r.statuses, StagingStat(0, 0, 0))

-----------------------------------------------------------------------------
(* get_current_branch_in_empty_repo *)

RECURSIVE trim_start_matches(_, _)
trim_start_matches(s, pat) ==
    IF s # <<>> /\ Head(s) = pat THEN trim_start_matches(Tail(s), pat) ELSE s

Whitespace == {" ", "\n", "\t", "\r"}

RECURSIVE trim_end(_)
trim_end(s) ==
    IF s # <<>> /\ s[Len(s)] \in Whitespace
    THEN trim_end(SubSeq(s, 1, Len(s) - 1)) ELSE s

get_current_branch_in_empty_repo(r) ==
    trim_end(trim_start_matches(r.head_file, "ref: refs/heads/"))

-----------------------------------------------------------------------------
(* print_prompt *)

\* The staging cluster, mixed into the head info
staging_info(ss) ==
    IF ss.modified > 0 \/ ss.staged > 0 \/ ss.conflict > 0 THEN
        LET stat_str == concat(intersperse(flatten(<<
                IF ss.staged > 0
                THEN Some(colored_str(<<GlyphStaged>> \o display_usize(ss.staged),
                                      "green"))
                ELSE None,
                IF ss.modified > 0
                THEN Some(colored_str(<<GlyphModified>> \o display_usize(ss.modified),
                                      "yellow"))
                ELSE None,
                IF ss.conflict > 0
                THEN Some(colored_str(<<GlyphConflict>> \o display_usize(ss.conflict),
                                      "red"))
                ELSE None >>), <<", ">>))
        IN  <<"(">> \o stat_str \o <<")">>
    ELSE <<>>

\* The write! of the stash count
stash_writes(d) ==
    IF d.stash > 0
    THEN << <<GlyphStash>> \o display_usize(d.stash) \o <<" ">> >>
    ELSE <<>>

\* The ahead/behind write!s gone wrong: ", " before every behind count
commit_stat_writes_always_separated(cs) ==
    IF cs.ahead > 0 \/ cs.behind > 0 THEN
        << <<" (">> >>
        \o (IF cs.ahead > 0
            THEN << display_usize(cs.ahead) \o <<GlyphAhead>> >> ELSE <<>>)
        \o (IF cs.behind > 0
            THEN << <<", ">>, display_usize(cs.behind) \o <<GlyphBehind>> >>
            ELSE <<>>)
        \o << <<")">> >>
    ELSE <<>>

\* The write!s of the ahead/behind counts, after a Branch head
commit_stat_writes(cs) ==
    IF cs.ahead > 0 \/ cs.behind > 0 THEN
        << <<" (">> >>
        \o (IF cs.ahead > 0
            THEN << display_usize(cs.ahead) \o <<GlyphAhead>> >> ELSE <<>>)
        \o (IF cs.behind > 0
            THEN (IF cs.ahead > 0 THEN << <<", ">> >> ELSE <<>>)
                 \o << display_usize(cs.behind) \o <<GlyphBehind>> >>
            ELSE <<>>)
        \o << <<")">> >>
    ELSE <<>>

\* The write!s of the match on data.head
head_writes(d) ==
    LET h == d.head
        si == staging_info(d.staging_stat)
    IN  CASE h.kind = "Branch" ->
                << bold_str(colored_str(h.name, "green")) \o si \o <<" -> ">>
                   \o bold_str(colored_str(
                        IF h.upstream.some THEN h.upstream.val
                        ELSE <<GlyphNoUpstream>>, "red")) >>
                \o commit_stat_writes(d.commit_stat)
          [] h.kind = "RemoteBranch" ->
                << bold_str(colored_str(h.name, "red")) \o si >>
          [] h.kind = "Tag" ->
                << <<GlyphTag>> \o bold_str(colored_str(h.name, "blue")) \o si >>
          [] h.kind = "Commit" ->
                << <<"Commit ">>
                   \o bold_str(colored_str(SubSeq(h.hash, 1, ShortHashLen), "blue"))
                   \o si >>
          [] h.kind = "EmptyBranch" ->
                << bold_str(colored_str(h.name, "green")) \o <<" ">>
                   \o colored_str(<<"(empty repo)">>, "red") >>

\* Everything print_prompt writes, one chunk per write!
print_prompt(d) == stash_writes(d) \o head_writes(d)

-----------------------------------------------------------------------------
(* stash_foreach *)

RECURSIVE stash_foreach(_, _)
\* The closure adds 1 per stash entry and always goes on
stash_foreach(n, stash) ==
    IF n = 0 THEN stash ELSE stash_foreach(n - 1, stash + 1)

-----------------------------------------------------------------------------
(* Repositories *)

HeadRefs(cs) ==
    {Reference(HeadsPrefix, <<"main">>, c) : c \in cs}
    \cup {Reference(RemotesPrefix, <<"origin/main">>, c) : c \in cs}
    \cup {Reference("", <<"HEAD">>, c) : c \in cs}

\* What branch.upstream() answers for the branch HEAD points to
Upstreams(cs) ==
    {[status |-> "found", ref |-> Reference(RemotesPrefix, <<"origin/main">>, c)] :
        c \in cs}
    \cup {[status |-> "notfound"], [status |-> "error"]}

NoUpstream == [status |-> "notfound"]

TagNames == {<<"v1">>, <<"v2">>, <<"v3">>}

\* Tag references in tag_foreach's order: distinct names, each pointing to a
\* commit (lightweight) or to a tag object (annotated)
TagLists(n, names, oids) ==
    LET entries == {[name |-> Reference(TagsPrefix, nm, o), oid |-> o] :
                        nm \in names, o \in oids}
    IN  {s \in UNION {[1..k -> entries] : k \in 0..n} :
            \A i, j \in DOMAIN s : i # j => s[i].name.short # s[j].name.short}

\* Commit graphs: a commit's parents are older commits
Graphs ==
    {p \in [Commits -> SUBSET Commits] :
        \A c \in Commits : \A d \in p[c] : d < c}

\* Commit 1 is the root, every other commit a child of it
ForkGraph == [c \in Commits |-> IF c = 1 THEN {} ELSE {1}]

SampleStatus ==
    {{"WT_NEW"}, {"INDEX_NEW"}, {"INDEX_MODIFIED", "WT_MODIFIED"},
     {"CONFLICTED", "INDEX_MODIFIED", "WT_MODIFIED"}}

StatusLists(n) == UNION {[1..k -> SampleStatus] : k \in 0..n}

HeadFile == <<"ref: refs/heads/", "main", "\n">>

Repo(is_empty, head, upstream, tags, parents, statuses, stashes) ==
    [is_empty |-> is_empty, head_file |-> HeadFile, head |-> head,
     upstream |-> upstream, tags |-> tags, parents |-> parents,
     statuses |-> statuses, stashes |-> stashes]

\* A repository without commits: HEAD is an unborn branch, there are no tags
EmptyRepos ==
    {Repo(TRUE, Reference(HeadsPrefix, <<"main">>, 0), NoUpstream, <<>>,
          [c \in Commits |-> {}], st, n) :
        st \in StatusLists(MaxEntries), n \in 0..MaxStash}

\* The repositories main is run on
MainRepos ==
    EmptyRepos
    \cup {Repo(FALSE, h, IF is_branch(h) THEN u ELSE NoUpstream, t, ForkGraph, st, n) :
            h \in HeadRefs({MaxCommits}), u \in Upstreams({MaxCommits - 1}),
            t \in TagLists(1, {<<"v1">>}, Commits \cup TagObjects),
            st \in StatusLists(MaxEntries), n \in 0..MaxStash}

\* The references prepare_head_info is run on
HeadRepos ==
    {Repo(FALSE, h, IF is_branch(h) THEN u ELSE NoUpstream, t, ForkGraph, <<>>, 0) :
        h \in HeadRefs(Commits), u \in Upstreams(Commits),
        t \in TagLists(MaxTags, TagNames, Commits \cup TagObjects)}

\* The commit graphs prepare_commit_stat is run on
GraphRepos ==
    {Repo(FALSE, h, IF is_branch(h) THEN u ELSE NoUpstream, t, g, <<>>, 0) :
        h \in HeadRefs(Commits), u \in Upstreams(Commits),
        t \in TagLists(1, {<<"v1">>}, Commits), g \in Graphs}

BigCount == 12

Counts == (0..MaxCount) \cup {BigCount}

\* The snapshots prepare_prompt_data can hand to print_prompt
PrintData ==
    {PromptData(EmptyBranch(<<"main">>), CommitStat(0, 0), StagingStat(0, 0, 0), 0)}
    \cup {PromptData(h, CommitStat(a, b), StagingStat(m, s, c), n) :
            h \in {Branch(<<"main">>, Some(<<"origin/main">>))},
            a \in Counts, b \in Counts, m \in Counts, s \in Counts,
            c \in Counts, n \in Counts}
    \cup {PromptData(h, CommitStat(a, 0), StagingStat(m, s, c), n) :
            h \in {Branch(<<"main">>, None)},
            a \in Counts \ {0}, m \in Counts, s \in Counts, c \in Counts,
            n \in Counts}
    \cup {PromptData(h, CommitStat(0, 0), StagingStat(m, s, c), n) :
            h \in {RemoteBranch(<<"origin/main">>), Tag(<<"v1">>),
                   Commit(oid_to_string(1))},
            m \in Counts, s \in Counts, c \in Counts, n \in Counts}

-----------------------------------------------------------------------------
(* The run *)

ExitFailure == 1

PanicExit == 101

Start(r, at) ==
    /\ repo = r
    /\ pc = at
    /\ data = NoData
    /\ acc = StagingStat(0, 0, 0)
    /\ entry = {}
    /\ status_idx = 0
    /\ stdout = <<>>
    /\ exit_code = None
    /\ queries = <<>>
    /\ failed = {}
    /\ tag_calls = 0

\* The queries of qs up to and including q
UpTo(qs, q) ==
    LET i == CHOOSE k \in DOMAIN qs : qs[k] = q /\ \A j \in 1..(k - 1) : qs[j] # q
    IN  SubSeq(qs, 1, i)

\* Query q of qs fails and the process ends with `code`
Abort(qs, q, code) ==
    /\ pc' = "exited"
    /\ exit_code' = Some(code)
    /\ queries' = queries \o UpTo(qs, q)
    /\ failed' = failed \cup {q}
    /\ UNCHANGED <<repo, data, acc, entry, status_idx, stdout, tag_calls>>

\* find_repo_using_current_dir
FindRepo ==
    /\ pc = "start"
    /\ \/ Abort(<<"current_dir">>, "current_dir", PanicExit)
       \/ Abort(<<"current_dir", "discover">>, "discover", ExitFailure)
       \/ /\ pc' = "is_empty"
          /\ queries' = queries \o <<"current_dir", "discover">>
          /\ UNCHANGED <<repo, data, acc, entry, status_idx, stdout, exit_code,
                         failed, tag_calls>>

\* prepare_prompt_data: repo.is_empty().unwrap()
CheckEmpty ==
    /\ pc = "is_empty"
    /\ \/ Abort(<<"is_empty">>, "is_empty", PanicExit)
       \/ /\ pc' = IF repo.is_empty THEN "empty_branch" ELSE "head_info"
          /\ queries' = Append(queries, "is_empty")
          /\ UNCHANGED <<repo, data, acc, entry, status_idx, stdout, exit_code,
                         failed, tag_calls>>

\* The empty-repository return gone wrong: status and stashes are counted
EmptyRepoCounted ==
    /\ pc = "empty_branch"
    /\ data' = PromptData(EmptyBranch(get_current_branch_in_empty_repo(repo)),
                          CommitStat(0, 0), prepare_staging_stat(repo),
                          stash_foreach(repo.stashes, 0))
    /\ pc' = "print"
    /\ queries' = queries \o <<"read_head_file", "statuses", "stash_foreach">>
    /\ UNCHANGED <<repo, acc, entry, status_idx, stdout, exit_code,
                   failed, tag_calls>>

\* prepare_prompt_data: the return for an empty repository
EmptyRepo ==
    /\ pc = "empty_branch"
    /\ \/ Abort(<<"read_head_file">>, "read_head_file", PanicExit)
       \/ /\ data' = PromptData(EmptyBranch(get_current_branch_in_empty_repo(repo)),
                                CommitStat(0, 0), StagingStat(0, 0, 0), 0)
          /\ pc' = "print"
          /\ queries' = Append(queries, "read_head_file")
          /\ UNCHANGED <<repo, acc, entry, status_idx, stdout, exit_code,
                         failed, tag_calls>>

\* prepare_head_info.  The upstream lookup is the one query whose failure is
\* not unwrapped: .ok() turns it into None.
HeadInfo ==
    /\ pc = "head_info"
    /\ \/ \E q \in head_fatal(repo) : Abort(head_queries(repo), q, PanicExit)
       \/ /\ data' = [data EXCEPT !.head = prepare_head_info(repo)]
          /\ tag_calls' = IF is_branch(repo.head) THEN 0
                          ELSE find_tag(repo, peel_to_commit(repo.head)).calls
          /\ queries' = queries \o head_queries(repo)
          /\ failed' = IF is_branch(repo.head) /\ repo.upstream.status = "error"
                       THEN failed \cup {"upstream"} ELSE failed
          /\ pc' = "commit_stat"
          /\ UNCHANGED <<repo, acc, entry, status_idx, stdout, exit_code>>

\* prepare_commit_stat
CommitStatStep ==
    /\ pc = "commit_stat"
    /\ \/ \E q \in Range(commit_queries(data.head)) :
            Abort(commit_queries(data.head), q, PanicExit)
       \/ /\ data' = [data EXCEPT !.commit_stat = prepare_commit_stat(repo, data.head)]
          /\ queries' = queries \o commit_queries(data.head)
          /\ pc' = "staging_stat"
          /\ UNCHANGED <<repo, acc, entry, status_idx, stdout, exit_code,
                         failed, tag_calls>>

\* prepare_staging_stat
StagingStatStep ==
    /\ pc = "staging_stat"
    /\ \/ Abort(<<"statuses">>, "statuses", PanicExit)
       \/ /\ data' = [data EXCEPT !.staging_stat = prepare_staging_stat(repo)]
          /\ queries' = Append(queries, "statuses")
          /\ pc' = "stash"
          /\ UNCHANGED <<repo, acc, entry, status_idx, stdout, exit_code,
                         failed, tag_calls>>

\* prepare_prompt_data: the stash count and the return
StashStep ==
    /\ pc = "stash"
    /\ \/ Abort(<<"stash_foreach">>, "stash_foreach", PanicExit)
       \/ /\ data' = [data EXCEPT !.stash = stash_foreach(repo.stashes, 0)]
          /\ queries' = Append(queries, "stash_foreach")
          /\ pc' = "print"
          /\ UNCHANGED <<repo, acc, entry, status_idx, stdout, exit_code,
                         failed, tag_calls>>

\* print_prompt, and main's return
PrintPrompt ==
    /\ pc = "print"
    /\ stdout' = stdout \o print_prompt(data)
    /\ pc' = "exited"
    /\ exit_code' = Some(0)
    /\ UNCHANGED <<repo, data, acc, entry, status_idx, queries, failed, tag_calls>>

\* prepare_staging_stat, entry by entry: the closure is called with the next
\* entry of the enumeration
StatusEntry ==
    /\ pc = "for_each_status"
    /\ status_idx < MaxEntries
    /\ \E e \in SUBSET StatusFlags :
        /\ entry' = e
        /\ acc' = count_status_entry(acc, e)
    /\ status_idx' = status_idx + 1
    /\ UNCHANGED <<repo, pc, data, stdout, exit_code, queries, failed, tag_calls>>

\* prepare_staging_stat: the enumeration is over, the counters are returned
StatusReturn ==
    /\ pc = "for_each_status"
    /\ data' = [data EXCEPT !.staging_stat = acc]
    /\ pc' = "stash"
    /\ UNCHANGED <<repo, acc, entry, status_idx, stdout, exit_code, queries,
                   failed, tag_calls>>

-----------------------------------------------------------------------------
(* Specifications *)

Init == \E r \in MainRepos : Start(r, "start")

Next ==
    \/ FindRepo
    \/ CheckEmpty
    \/ EmptyRepo
    \/ HeadInfo
    \/ CommitStatStep
    \/ StagingStatStep
    \/ StashStep
    \/ PrintPrompt

\* main
Spec == Init /\ [][Next]_vars

InitHead == \E r \in HeadRepos : Start(r, "head_info")

\* prepare_head_info on its own
SpecHead == InitHead /\ [][HeadInfo]_vars

InitCommitStat ==
    \E r \in GraphRepos :
        /\ repo = r
        /\ pc = "commit_stat"
        /\ data = [NoData EXCEPT !.head = prepare_head_info(r)]
        /\ acc = StagingStat(0, 0, 0)
        /\ entry = {}
        /\ status_idx = 0
        /\ stdout = <<>>
        /\ exit_code = None
        /\ queries = <<>>
        /\ failed = {}
        /\ tag_calls = 0

\* prepare_commit_stat on its own
SpecCommitStat == InitCommitStat /\ [][CommitStatStep]_vars

InitStaging ==
    \E r \in {Repo(FALSE, Reference(HeadsPrefix, <<"main">>, 1), NoUpstream,
                   <<>>, ForkGraph, <<>>, 0)} :
        Start(r, "for_each_status")

NextStaging == StatusEntry \/ StatusReturn

\* prepare_staging_stat on its own, one status entry at a time
SpecStaging == InitStaging /\ [][NextStaging]_vars

InitPrint ==
    \E d \in PrintData :
        /\ repo = Repo(FALSE, Reference(HeadsPrefix, <<"main">>, 1), NoUpstream,
                       <<>>, ForkGraph, <<>>, 0)
        /\ pc = "print"
        /\ data = d
        /\ acc = StagingStat(0, 0, 0)
        /\ entry = {}
        /\ status_idx = 0
        /\ stdout = <<>>
        /\ exit_code = None
        /\ queries = <<>>
        /\ failed = {}
        /\ tag_calls = 0

\* print_prompt on its own
SpecPrint == InitPrint /\ [][PrintPrompt]_vars

-----------------------------------------------------------------------------
(* Properties *)

\* prepare_head_info has returned
HeadReturned == pc = "commit_stat"

\* The tag references whose target is the commit HEAD points to
MatchingTags == {i \in DOMAIN repo.tags : repo.tags[i].oid = repo.head.target}

HexValue(ch) == CHOOSE v \in 0..15 : HexChars[v + 1] = ch

\* text is the 40 hex characters of the id of obj
IsFullHexOf(text, obj) ==
    /\ Len(text) = 40
    /\ \A i \in 1..40 : \E v \in 0..15 : HexChars[v + 1] = text[i]
    /\ \A i \in 1..20 :
        HexValue(text[2 * i - 1]) * 16 + HexValue(text[2 * i]) = oid_bytes(obj)[i]

\* C1: once prepare_head_info has returned, the head is Branch when HEAD is
\* a local branch (tagged or not); otherwise Tag when a tag reference points
\* to HEAD's commit (remote-tracking or not); otherwise RemoteBranch when
\* HEAD is a remote-tracking reference; otherwise Commit with the 40 hex
\* characters of the id of HEAD's target.
C1_HeadPrecedence ==
    HeadReturned =>
        LET h == data.head
            local == repo.head.prefix = "refs/heads/"
            remote == repo.head.prefix = "refs/remotes/"
            tagged == MatchingTags # {}
        IN  /\ h.kind \in {"Branch", "Tag", "RemoteBranch", "Commit"}
            /\ h.kind = "Branch" <=> local
            /\ h.kind = "Tag" <=> ~local /\ tagged
            /\ h.kind = "RemoteBranch" <=> ~local /\ ~tagged /\ remote
            /\ h.kind = "Commit" <=> ~local /\ ~tagged /\ ~remote
            /\ h.kind \in {"Branch", "RemoteBranch"} => h.name = repo.head.short
            /\ h.kind = "Commit" => IsFullHexOf(h.hash, repo.head.target)

\* A local branch whose commit is also tagged has been classified
C1_Witness ==
    /\ HeadReturned
    /\ repo.head.prefix = "refs/heads/"
    /\ MatchingTags # {}
    /\ data.head.kind = "Branch"

\* C4: a Branch head without upstream comes only from a lookup that found no
\* upstream; a lookup that failed otherwise ends the run with a failure exit.
C4_UpstreamNoneOnlyWhenNotFound ==
    /\ (HeadReturned /\ data.head.kind = "Branch" /\ ~data.head.upstream.some)
            => repo.upstream.status = "notfound"
    /\ ("upstream" \in failed)
            => (pc = "exited" /\ exit_code.some /\ exit_code.val # 0)

Min(S) == CHOOSE x \in S : \A y \in S : x <= y

Max(S) == CHOOSE x \in S : \A y \in S : y <= x

\* C5 as claimed: with several tags on HEAD's commit and HEAD not a local
\* branch, find_tag answers the first of them and stops scanning there.
C5_FirstMatchEarlyExit ==
    (HeadReturned /\ repo.head.prefix # "refs/heads/" /\ Cardinality(MatchingTags) >= 2)
        => /\ data.head = Tag(repo.tags[Min(MatchingTags)].name.short)
           /\ tag_calls = Min(MatchingTags)

\* C5 as the code has it: with several tags on HEAD's commit and HEAD not a
\* local branch, find_tag answers the last of them in iteration order, and
\* its callback runs once for every tag.
C5_LastMatchFullScan ==
    (HeadReturned /\ repo.head.prefix # "refs/heads/" /\ Cardinality(MatchingTags) >= 2)
        => /\ data.head = Tag(repo.tags[Max(MatchingTags)].name.short)
           /\ tag_calls = Len(repo.tags)

\* Two tags on HEAD's commit, HEAD detached or remote-tracking
C5_Witness ==
    /\ HeadReturned
    /\ repo.head.prefix # "refs/heads/"
    /\ Cardinality(MatchingTags) >= 2
    /\ data.head.kind = "Tag"

-----------------------------------------------------------------------------

\* The queries an empty repository must not see
LaterQueries ==
    {"head", "find_branch", "upstream", "peel_to_commit", "tag_foreach",
     "graph_ahead_behind", "revwalk", "push_head", "statuses", "stash_foreach"}

\* C2: for a repository without commits, the snapshot handed to print_prompt
\* has head EmptyBranch and all six counts 0, and the only queries issued are
\* the discovery, the emptiness check and the read of the branch name.
C2_EmptyRepoShortCircuit ==
    repo.is_empty =>
        /\ Range(queries) \cap LaterQueries = {}
        /\ (pc = "print" \/ exit_code = Some(0)) =>
            /\ data.head.kind = "EmptyBranch"
            /\ data.commit_stat = CommitStat(0, 0)
            /\ data.staging_stat = StagingStat(0, 0, 0)
            /\ data.stash = 0
            /\ queries = <<"current_dir", "discover", "is_empty", "read_head_file">>

\* An empty repository with status entries and stashes has been printed
C2_Witness ==
    /\ repo.is_empty
    /\ repo.statuses # <<>>
    /\ repo.stashes > 0
    /\ pc = "exited"
    /\ exit_code = Some(0)
    /\ stdout # <<>>

\* C3: standard output is written only after every repository query has
\* been issued and has succeeded, and a run in which a query failed ends
\* with a failure exit and nothing written.
C3_NoOutputUnlessAllQueriesSucceeded ==
    /\ stdout # <<>> =>
        /\ failed = {}
        /\ {"discover", "is_empty"} \subseteq Range(queries)
        /\ ~repo.is_empty =>
                {"head", "statuses", "stash_foreach"} \subseteq Range(queries)
    /\ (failed # {} /\ pc = "exited") =>
        (exit_code.some /\ exit_code.val # 0 /\ stdout = <<>>)

-----------------------------------------------------------------------------

CountedIndexFlags == {"INDEX_NEW", "INDEX_MODIFIED", "INDEX_DELETED"}

CountedWtFlags == {"WT_NEW", "WT_MODIFIED", "WT_DELETED"}

\* The closure has just been called with entry'
EntryCounted == pc = "for_each_status" /\ status_idx' = status_idx + 1

\* C6: an entry with the conflicted flag adds 1 to conflict and nothing to
\* staged or modified, whatever else it carries; any other entry leaves
\* conflict as it is.
C6_ConflictedCountedOnce ==
    [][EntryCounted =>
            IF "CONFLICTED" \in entry'
            THEN /\ acc'.conflict = acc.conflict + 1
                 /\ acc'.staged = acc.staged
                 /\ acc'.modified = acc.modified
            ELSE acc'.conflict = acc.conflict]_vars

\* Two conflicted entries, the last one with index and working-tree flags too
C6_Witness ==
    /\ status_idx = 2
    /\ {"CONFLICTED", "INDEX_MODIFIED", "WT_MODIFIED"} \subseteq entry
    /\ acc = StagingStat(0, 0, 2)

\* C7: an entry without the conflicted flag adds 1 to staged exactly when it
\* has an index flag (new, modified, deleted) and 1 to modified exactly when
\* it has a working-tree flag (new, modified, deleted): both for the same
\* entry when it has both.
C7_StagedAndModifiedOverlap ==
    [][(EntryCounted /\ "CONFLICTED" \notin entry') =>
            /\ acc'.staged = acc.staged
                    + (IF entry' \cap CountedIndexFlags # {} THEN 1 ELSE 0)
            /\ acc'.modified = acc.modified
                    + (IF entry' \cap CountedWtFlags # {} THEN 1 ELSE 0)]_vars

\* Two entries staged and modified again
C7_Witness ==
    /\ status_idx = 2
    /\ "CONFLICTED" \notin entry
    /\ entry \cap CountedIndexFlags # {}
    /\ entry \cap CountedWtFlags # {}
    /\ acc = StagingStat(2, 2, 0)

-----------------------------------------------------------------------------

RECURSIVE Closure(_, _, _)
\* S and the commits reached from it in at most n parent steps
Closure(parents, S, n) ==
    IF n = 0 THEN S
    ELSE Closure(parents, S \cup UNION {parents[c] : c \in S}, n - 1)

\* The commits reachable from HEAD
ReachableFromHead == Closure(repo.parents, {repo.head.target}, MaxCommits)

\* prepare_commit_stat has returned
CommitStatReturned == pc = "staging_stat"

\* C8: for a Branch head without upstream, behind is 0 and ahead the number
\* of commits reachable from HEAD; for any other variant than Branch both are
\* 0 and no query is issued.
C8_NoUpstreamCountsHistory ==
    CommitStatReturned =>
        /\ (data.head.kind = "Branch" /\ ~data.head.upstream.some) =>
                /\ data.commit_stat.behind = 0
                /\ data.commit_stat.ahead = Cardinality(ReachableFromHead)
        /\ data.head.kind # "Branch" =>
                /\ data.commit_stat = CommitStat(0, 0)
                /\ queries = <<>>

\* A branch without upstream on a merge commit of a three-commit history
C8_Witness ==
    /\ CommitStatReturned
    /\ data.head.kind = "Branch"
    /\ ~data.head.upstream.some
    /\ Cardinality(repo.parents[repo.head.target]) = 2
    /\ data.commit_stat.ahead = 3

-----------------------------------------------------------------------------

\* print_prompt has returned
Printed == pc = "exited" /\ exit_code = Some(0)

\* The chunk of the head info: the first one, or the second after a stash
HeadChunk == stdout[IF data.stash > 0 THEN 2 ELSE 1]

\* What precedes the staging cluster in the head chunk
BeforeCluster ==
    CASE data.head.kind = "Branch" -> 4 + Len(data.head.name) + 2
      [] data.head.kind = "RemoteBranch" -> 4 + Len(data.head.name) + 2
      [] data.head.kind = "Tag" -> 1 + 4 + Len(data.head.name) + 2
      [] data.head.kind = "Commit" -> 1 + 4 + 13 + 2

\* What follows it: for a Branch the arrow and the upstream
AfterCluster ==
    IF data.head.kind = "Branch"
    THEN 1 + 4 + (IF data.head.upstream.some THEN Len(data.head.upstream.val) ELSE 1) + 2
    ELSE 0

ClusterWritten ==
    SubSeq(HeadChunk, BeforeCluster + 1, Len(HeadChunk) - AfterCluster)

ClusterEntry(glyph, n, color) ==
    <<"%F{", color, "}", glyph>> \o display_usize(n) \o <<"%f">>

\* C9: the staging cluster is empty when staged, modified and conflict are
\* all 0; otherwise it is "(" ... ")" around one entry per counter above 0,
\* staged then modified then conflict, with ", " between consecutive
\* entries only.
C9_StagingCluster ==
    (Printed /\ data.head.kind # "EmptyBranch") =>
        LET ss == data.staging_stat
            s == IF ss.staged > 0 THEN ClusterEntry("U+1F5F8", ss.staged, "green")
                 ELSE <<>>
            m == IF ss.modified > 0 THEN ClusterEntry("U+2022", ss.modified, "yellow")
                 ELSE <<>>
            c == IF ss.conflict > 0 THEN ClusterEntry("U+2718", ss.conflict, "red")
                 ELSE <<>>
            sm == IF ss.staged > 0 /\ ss.modified > 0 THEN <<", ">> ELSE <<>>
            mc == IF (ss.staged > 0 \/ ss.modified > 0) /\ ss.conflict > 0
                  THEN <<", ">> ELSE <<>>
        IN  ClusterWritten =
                IF ss.staged = 0 /\ ss.modified = 0 /\ ss.conflict = 0 THEN <<>>
                ELSE <<"(">> \o s \o sm \o m \o mc \o c \o <<")">>

\* Modified and conflicted files but none staged, after a stash chunk
C9_Witness ==
    /\ Printed
    /\ data.head.kind = "Tag"
    /\ data.stash > 0
    /\ data.staging_stat.staged = 0
    /\ data.staging_stat.modified > 0
    /\ data.staging_stat.conflict > 9

\* What print_prompt wrote after the head chunk
SuffixWritten ==
    concat(SubSeq(stdout, (IF data.stash > 0 THEN 3 ELSE 2), Len(stdout)))

\* C10: after a Branch head, the suffix is written exactly when ahead or
\* behind is above 0: " (", the ahead count and the up arrow when ahead > 0,
\* ", " when both are above 0, the behind count and the down arrow when
\* behind > 0, ")".
C10_AheadBehindSuffix ==
    (Printed /\ data.head.kind = "Branch") =>
        LET a == data.commit_stat.ahead
            b == data.commit_stat.behind
        IN  SuffixWritten =
                IF a = 0 /\ b = 0 THEN <<>>
                ELSE <<" (">>
                     \o (IF a > 0 THEN display_usize(a) \o <<"U+2191">> ELSE <<>>)
                     \o (IF a > 0 /\ b > 0 THEN <<", ">> ELSE <<>>)
                     \o (IF b > 0 THEN display_usize(b) \o <<"U+2193">> ELSE <<>>)
                     \o <<")">>

\* A branch behind its upstream and not ahead of it
C10_Witness ==
    /\ Printed
    /\ data.head.kind = "Branch"
    /\ data.commit_stat.ahead = 0
    /\ data.commit_stat.behind > 0
    /\ Len(stdout) > 1

====
